---- MODULE Spec2Model ----
(***************************************************************************)
(* A model of the divvy-bike-map API process: the scheduler of             *)
(* src/api/internal/server.go (collection loop, prediction loop, signal    *)
(* handling), main's startup refresh, and the RefreshStationData use case  *)
(* of src/api/internal/station_service.go over the store of                *)
(* src/api/internal/database.go.                                           *)
(*                                                                         *)
(* Time is discrete.  One step of Tick is one unit of time; the four       *)
(* configured durations below are expressed in that unit.  Timers are kept *)
(* as the time that remains until they fire, and the wall clock is kept    *)
(* modulo the collection interval, which is all time.Truncate reads.       *)
(* A goroutine that can run (a select with a ready case, a goroutine just  *)
(* spawned) runs before time advances; a call that is in flight (a feed    *)
(* fetch, an inference request, a transaction) takes any amount of time.   *)
(***************************************************************************)
EXTENDS Integers, Sequences, FiniteSets, TLC

\* Config.Timing, in units of model time (the environment sets them).
DataCollectionIntervalMin == 3
PredictionIntervalHours == 4
MLServiceMaxWaitMin == 3
MLServiceCheckIntervalSec == 2

VARIABLES
    mainPc,             \* main / Server.Start: "init", "serving", "shuttingDown", "exited",
                        \* or "direct": the two loops started by a caller that owns their context
    clock,              \* time.Now() modulo the collection interval
    ctx,                \* the context given to both loops: "background", "active", "done"
    collPc,             \* collection goroutine: "none", "waitFirst", "runFirst", "waitTick", "runTick", "exit"
    collTimer,          \* time left on time.After(timeUntilNext), then on the ticker's current period
    collTick,           \* the timer channel the collection loop selects on holds a value
    collWaited,         \* time the collection loop has spent waiting for its first fetch
    collStartClock,     \* the clock when the loop made the call that is in flight
    collLast,           \* what the loop's latest returned call returned: "none", "ok", "err"
    predPc,             \* prediction goroutine: "none", "attempt", "retryWait", "tickWait", "runTick", "exit"
    predElapsed,        \* time.Since(start) while waitAndGenerateInitialPredictions runs
    predRetry,          \* time left on time.After(checkInterval) while it is selected on
    predAttempts,       \* RunInferenceWithResults calls made by waitAndGenerateInitialPredictions
    predInitResult,     \* its return: "none", "ok", "timeout", "cancelled"
    predSinceRun,       \* time spent in the ticker loop since it was entered or last started a run
    predDoomed,         \* the in-flight attempt was started with a context already done
    predTickerStopped,  \* ticker.Stop() has run on the prediction ticker
    predTickTimer,      \* time left on the prediction ticker's current period
    predTick,           \* the prediction ticker's channel holds a value
    startupPc,          \* main's startup refresh goroutine: "none", "ready", "running", "done"
    startupResult,      \* "none", "ok", "err"
    httpPc,             \* a POST /api/refresh request: "idle", "running"
    startedAfterCancel, \* a loop has started a use-case call with ctx done
    inv,                \* RefreshStationData invocations, one per caller: where it is, its converted
                        \* records (locals, gone when it returns), the calls it has made, what the
                        \* fetch and the upsert returned to it, and what it returned
    dbStations,         \* table stations: the row of each stored station_id
    dbAvail,            \* table station_availability, in insertion order
    fetch,              \* one FetchStationData call: its two requests, the errgroup, its return
    run,                \* one RunInferenceWithResults invocation
    dbPred,             \* table predictions, in insertion order
    dbClock,            \* CURRENT_TIMESTAMP of the database
    reply,              \* the latest response of the HTTP server: the request, the handler
                        \* that served it, the queries it issued, the status and the body
    config,             \* the configuration of the process
    boot,               \* how far main has come with it: the error of Validate, the position
                        \* of main and the ticker of the collection goroutine
    lastCall            \* the latest call of the store made on its own: its name, its batch,
                        \* whether it returned an error, and the rows a read returned

mainVars == <<mainPc, clock, ctx>>
collVars == <<collPc, collTimer, collTick, collWaited, collStartClock, collLast>>
predVars == <<predPc, predElapsed, predRetry, predAttempts, predInitResult, predSinceRun,
              predDoomed, predTickerStopped, predTickTimer, predTick>>
auxVars == <<startupPc, startupResult, httpPc, startedAfterCancel>>
schedVars == <<mainVars, collVars, predVars, auxVars>>
clientVars == <<fetch, run>>
gatewayVars == <<dbPred, dbClock, lastCall>>
facadeVars == <<reply>>
configVars == <<config, boot>>
storeVars == <<inv, dbStations, dbAvail, clientVars, gatewayVars, facadeVars, configVars>>
vars == <<schedVars, storeVars>>

Min(a, b) == IF a < b THEN a ELSE b

Outcomes == {"ok", "err"}

(***************************************************************************)
(* Scheduler: src/api/internal/server.go                                   *)
(***************************************************************************)

\* time.Time.Truncate(d): the latest multiple of d that is not after t.
Truncate(t, d) == t - (t % d)

\* Mutant of NextInterval: the boundary is not moved on by one interval.
NextIntervalNoAdd(now) == Truncate(now, DataCollectionIntervalMin)

\* server.go:129: nextInterval := now.Truncate(interval).Add(interval)
NextInterval(now) == Truncate(now, DataCollectionIntervalMin) + DataCollectionIntervalMin

\* server.go:130: timeUntilNext := nextInterval.Sub(now)
TimeUntilNext(now) == NextInterval(now) - now

\* server.go:199-200: the prediction ticker is created in StartPredictionService and
\* `defer ticker.Stop()` runs when StartPredictionService returns, which is right after
\* it has spawned the goroutine that selects on ticker.C.
TickerStoppedOnReturn == TRUE

\* The process is running goroutines.
Alive == mainPc \in {"serving", "shuttingDown", "direct"}

\* Mutant of InitialPhaseTop: the retry loop without its check of the maximum wait.
InitialPhaseTopNoDeadline(elapsed) ==
    /\ predPc' = "attempt"
    /\ predElapsed' = elapsed
    /\ predAttempts' = predAttempts + 1
    /\ predDoomed' = (ctx' = "done")
    /\ startedAfterCancel' = (startedAfterCancel \/ ctx' = "done")
    /\ UNCHANGED <<predInitResult, predSinceRun>>

\* server.go:176-182, the top of the retry loop with `elapsed` on the stopwatch:
\* give up when the maximum wait is exceeded, else call RunInferenceWithResults(ctx).
InitialPhaseTop(elapsed) ==
    IF elapsed > MLServiceMaxWaitMin
    THEN /\ predPc' = "tickWait"
         /\ predInitResult' = "timeout"
         /\ predElapsed' = 0
         /\ predSinceRun' = 0
         /\ UNCHANGED <<predAttempts, predDoomed, startedAfterCancel>>
    ELSE /\ predPc' = "attempt"
         /\ predElapsed' = elapsed
         /\ predAttempts' = predAttempts + 1
         /\ predDoomed' = (ctx' = "done")
         /\ startedAfterCancel' = (startedAfterCancel \/ ctx' = "done")
         /\ UNCHANGED <<predInitResult, predSinceRun>>

\* startDataCollection (server.go:125-134) and StartPredictionService (server.go:198-204)
\* called with the context c: both goroutines are spawned and run to their first
\* blocking point.
StartLoops(c) ==
    /\ ctx' = c
    /\ collPc' = "waitFirst"
    /\ collTimer' = IF TimeUntilNext(clock) > 0 THEN TimeUntilNext(clock) ELSE 0
    /\ collTick' = (TimeUntilNext(clock) <= 0)
    /\ collWaited' = 0
    /\ UNCHANGED <<collStartClock, collLast>>
    /\ predTickTimer' = PredictionIntervalHours
    /\ predTick' = FALSE
    /\ predTickerStopped' = TickerStoppedOnReturn
    /\ predRetry' = 0
    /\ InitialPhaseTop(0)

\* main (app.test.js:410-425) and Server.Start (server.go:87-110): the startup refresh
\* goroutine is spawned, both loops are started with context.Background(), the listener
\* goroutine is spawned and Start blocks on <-quit.
ServerStart ==
    /\ mainPc = "init"
    /\ mainPc' = "serving"
    /\ startupPc' = "ready"
    /\ StartLoops("background")
    /\ UNCHANGED <<clock, startupResult, httpPc, storeVars>>

\* The two loops started by a caller that passes a context it can cancel
\* (startDataCollection(ctx) and StartPredictionService(ctx) take the context as their
\* parameter); no server, no startup refresh.
StartLoopsWithContext ==
    /\ mainPc = "init"
    /\ mainPc' = "direct"
    /\ StartLoops("active")
    /\ UNCHANGED <<clock, startupPc, startupResult, httpPc, storeVars>>

\* The caller of the loops cancels their context.
CancelContext ==
    /\ mainPc = "direct"
    /\ ctx = "active"
    /\ ctx' = "done"
    /\ UNCHANGED <<mainPc, clock, collVars, predVars, auxVars, storeVars>>

\* server.go:108-112: SIGINT or SIGTERM arrives on quit; Start goes on to
\* server.Shutdown.  The loops' context is context.Background(): nothing cancels it.
Signal ==
    /\ mainPc = "serving"
    /\ mainPc' = "shuttingDown"
    /\ UNCHANGED <<clock, ctx, collVars, predVars, auxVars, storeVars>>

\* server.go:114-122 and main returning (app.test.js:425-428): Shutdown returns, when
\* the connections are idle or when its timeout expires; Start returns and the
\* process exits with its goroutines.
ServerExit ==
    /\ mainPc = "shuttingDown"
    /\ mainPc' = "exited"
    /\ UNCHANGED <<clock, ctx, collVars, predVars, auxVars, storeVars>>

\* Mutant of ReadyCases: the use cases run under one process-wide lock, so a loop
\* whose timer has fired goes on only when no use-case call is in flight.
ReadyCasesUnderOneLock(timerFired) ==
    (IF ctx = "done" THEN {"ctx.Done"} ELSE {})
        \cup (IF timerFired /\ collPc \notin {"runFirst", "runTick"} /\ predPc \notin {"attempt", "runTick"}
              THEN {"timer"} ELSE {})

\* The cases of a Go select that can proceed; select takes any one of them.
ReadyCases(timerFired) ==
    (IF ctx = "done" THEN {"ctx.Done"} ELSE {}) \cup (IF timerFired THEN {"timer"} ELSE {})

\* server.go:136-147: the select before the first fetch.  On ctx.Done the goroutine
\* returns; on time.After(timeUntilNext) it calls RefreshStationDataInternal.
CollFirstSelect ==
    /\ Alive
    /\ collPc = "waitFirst"
    /\ \E ch \in ReadyCases(collTick) :
          IF ch = "ctx.Done"
          THEN /\ collPc' = "exit"
               /\ UNCHANGED <<collTick, collStartClock, startedAfterCancel>>
          ELSE /\ collPc' = "runFirst"
               /\ collTick' = FALSE
               /\ collStartClock' = clock
               /\ startedAfterCancel' = (startedAfterCancel \/ ctx = "done")
    /\ UNCHANGED <<mainVars, collTimer, collWaited, collLast, predVars,
                   startupPc, startupResult, httpPc, storeVars>>

\* server.go:142-153: the first RefreshStationDataInternal returns r; the outcome is
\* logged and the ticker is created, its first period starting now.
CollFirstReturns ==
    /\ Alive
    /\ collPc = "runFirst"
    /\ \E r \in Outcomes : collLast' = r
    /\ collPc' = "waitTick"
    /\ collTimer' = DataCollectionIntervalMin
    /\ collTick' = FALSE
    /\ collWaited' = 0
    /\ collStartClock' = 0
    /\ UNCHANGED <<mainVars, predVars, auxVars, storeVars>>

\* server.go:155-167: the select of the ticker loop.
CollLoopSelect ==
    /\ Alive
    /\ collPc = "waitTick"
    /\ \E ch \in ReadyCases(collTick) :
          IF ch = "ctx.Done"
          THEN /\ collPc' = "exit"
               /\ UNCHANGED <<collTick, collStartClock, startedAfterCancel>>
          ELSE /\ collPc' = "runTick"
               /\ collTick' = FALSE
               /\ collStartClock' = clock
               /\ startedAfterCancel' = (startedAfterCancel \/ ctx = "done")
    /\ UNCHANGED <<mainVars, collTimer, collWaited, collLast, predVars,
                   startupPc, startupResult, httpPc, storeVars>>

\* server.go:161-165: a scheduled RefreshStationDataInternal returns r; the outcome is
\* logged and the loop selects again.
CollTickReturns ==
    /\ Alive
    /\ collPc = "runTick"
    /\ \E r \in Outcomes : collLast' = r
    /\ collPc' = "waitTick"
    /\ collStartClock' = 0
    /\ UNCHANGED <<mainVars, collTimer, collTick, collWaited, predVars, auxVars, storeVars>>

\* server.go:185-190: the select after a failed attempt.  On ctx.Done
\* waitAndGenerateInitialPredictions returns ctx.Err() and StartPredictionService goes
\* on to its ticker loop; on time.After(checkInterval) the retry loop continues.
PredRetrySelect ==
    /\ Alive
    /\ predPc = "retryWait"
    /\ UNCHANGED <<mainVars, collVars, startupPc, startupResult, httpPc, storeVars>>
    /\ \E ch \in ReadyCases(predRetry = 0) :
          IF ch = "ctx.Done"
          THEN /\ predPc' = "tickWait"
               /\ predInitResult' = "cancelled"
               /\ predElapsed' = 0
               /\ predSinceRun' = 0
               /\ UNCHANGED <<predAttempts, predDoomed, startedAfterCancel>>
          ELSE InitialPhaseTop(predElapsed)
    /\ predRetry' = 0
    /\ UNCHANGED <<predTickerStopped, predTickTimer, predTick>>

\* RunInferenceWithResults returns r to the prediction goroutine.  In the retry loop
\* (server.go:182-194) success ends waitAndGenerateInitialPredictions and an error
\* arms time.After(checkInterval); in the ticker loop (server.go:218-222) the outcome
\* is logged.  A call started with a context that was already done fails.
PredRunReturns ==
    /\ Alive
    /\ predPc \in {"attempt", "runTick"}
    /\ \E r \in Outcomes :
          /\ (predPc = "attempt" /\ predDoomed) => r = "err"
          /\ IF predPc = "attempt" /\ r = "err"
             THEN /\ predPc' = "retryWait"
                  /\ predRetry' = MLServiceCheckIntervalSec
                  /\ UNCHANGED <<predInitResult, predElapsed, predSinceRun>>
             ELSE /\ predPc' = "tickWait"
                  /\ predInitResult' = IF predPc = "attempt" THEN "ok" ELSE predInitResult
                  /\ predElapsed' = 0
                  /\ predSinceRun' = IF predPc = "attempt" THEN 0 ELSE predSinceRun
                  /\ UNCHANGED predRetry
    /\ predDoomed' = FALSE
    /\ UNCHANGED <<mainVars, collVars, predAttempts, predTickerStopped,
                   predTickTimer, predTick, auxVars, storeVars>>

\* server.go:212-224: the select of the prediction ticker loop.
PredLoopSelect ==
    /\ Alive
    /\ predPc = "tickWait"
    /\ \E ch \in ReadyCases(predTick) :
          IF ch = "ctx.Done"
          THEN /\ predPc' = "exit"
               /\ UNCHANGED <<predTick, predSinceRun, startedAfterCancel>>
          ELSE /\ predPc' = "runTick"
               /\ predTick' = FALSE
               /\ predSinceRun' = 0
               /\ startedAfterCancel' = (startedAfterCancel \/ ctx = "done")
    /\ UNCHANGED <<mainVars, collVars, predElapsed, predRetry, predAttempts, predInitResult,
                   predDoomed, predTickerStopped, predTickTimer,
                   startupPc, startupResult, httpPc, storeVars>>

\* app.test.js:412-413: the startup goroutine calls RefreshStationDataInternal.
StartupRefreshBegin ==
    /\ Alive
    /\ startupPc = "ready"
    /\ startupPc' = "running"
    /\ UNCHANGED <<mainVars, collVars, predVars, startupResult, httpPc, startedAfterCancel, storeVars>>

\* app.test.js:413-418: the startup refresh returns r; an error is logged, and the
\* goroutine ends either way.
StartupRefreshReturns ==
    /\ Alive
    /\ startupPc = "running"
    /\ startupPc' = "done"
    /\ \E r \in Outcomes : startupResult' = r
    /\ UNCHANGED <<mainVars, collVars, predVars, httpPc, startedAfterCancel, storeVars>>

\* Mutant of HTTPRefreshBegin: the server listens only once the prediction loop has
\* left its initial phase and the collection loop has made its first fetch.
HTTPRefreshBeginAfterLoops ==
    /\ mainPc = "serving"
    /\ httpPc = "idle"
    /\ predPc \notin {"attempt", "retryWait"}
    /\ collPc \notin {"waitFirst", "runFirst"}
    /\ httpPc' = "running"
    /\ UNCHANGED <<mainVars, collVars, predVars, startupPc, startupResult, startedAfterCancel, storeVars>>

\* http_handlers.go:95-98: a POST /api/refresh request arrives while the server
\* listens and its handler calls RefreshStationData.
HTTPRefreshBegin ==
    /\ mainPc = "serving"
    /\ httpPc = "idle"
    /\ httpPc' = "running"
    /\ UNCHANGED <<mainVars, collVars, predVars, startupPc, startupResult, startedAfterCancel, storeVars>>

\* http_handlers.go:98-104: the handler's RefreshStationData returns and the response
\* is written.
HTTPRefreshReturns ==
    /\ Alive
    /\ httpPc = "running"
    /\ httpPc' = "idle"
    /\ UNCHANGED <<mainVars, collVars, predVars, startupPc, startupResult, startedAfterCancel, storeVars>>

\* Some goroutine can run now: a select has a ready case, or a goroutine was just spawned.
Runnable ==
    \/ collPc \in {"waitFirst", "waitTick"} /\ ReadyCases(collTick) # {}
    \/ predPc = "retryWait" /\ ReadyCases(predRetry = 0) # {}
    \/ predPc = "tickWait" /\ ReadyCases(predTick) # {}
    \/ startupPc = "ready"

\* One unit of time passes: the clock advances, the running timers count down and
\* fire.  A ticker's channel holds one value: a tick that finds it full is dropped.
Tick ==
    /\ Alive
    /\ ~Runnable
    /\ clock' = (clock + 1) % DataCollectionIntervalMin
    /\ IF collPc = "waitFirst"
       THEN /\ collTimer' = collTimer - 1
            /\ collTick' = (collTimer = 1)
            /\ collWaited' = Min(collWaited + 1, DataCollectionIntervalMin + 1)
       ELSE IF collPc \in {"waitTick", "runTick"}
       THEN /\ collTimer' = IF collTimer = 1 THEN DataCollectionIntervalMin ELSE collTimer - 1
            /\ collTick' = (collTick \/ collTimer = 1)
            /\ UNCHANGED collWaited
       ELSE UNCHANGED <<collTimer, collTick, collWaited>>
    /\ predElapsed' = IF predPc \in {"attempt", "retryWait"}
                      THEN Min(predElapsed + 1, MLServiceMaxWaitMin + 1)
                      ELSE predElapsed
    /\ predRetry' = IF predPc = "retryWait" THEN predRetry - 1 ELSE predRetry
    /\ predSinceRun' = IF predPc = "tickWait"
                       THEN Min(predSinceRun + 1, PredictionIntervalHours + 1)
                       ELSE predSinceRun
    /\ IF predTickerStopped \/ predPc = "none"
       THEN UNCHANGED <<predTickTimer, predTick>>
       ELSE /\ predTickTimer' = IF predTickTimer = 1 THEN PredictionIntervalHours ELSE predTickTimer - 1
            /\ predTick' = (predTick \/ predTickTimer = 1)
    /\ UNCHANGED <<mainPc, ctx, collPc, collStartClock, collLast,
                   predPc, predAttempts, predInitResult, predDoomed, predTickerStopped,
                   auxVars, storeVars>>

(***************************************************************************)
(* Collection use case: src/api/internal/station_service.go, over the      *)
(* feed client of divvy_client.go and the store of database.go             *)
(***************************************************************************)

\* The longest feed the model draws.
MaxFeedLen == 1

StationIDs == {"s1", "s2"}
Names == {"A", "B"}
Capacities == {15}
BikeCounts == {5}

\* types.go DivvyStation and DivvyStationStatus, the fields the use case reads
\* (lat, lon and the flags are copied the same way as the ones kept here).
DivvyStation == [station_id : StationIDs, name : Names, capacity : Capacities]
DivvyStationStatus == [station_id : StationIDs, num_bikes_available : BikeCounts]

SeqsUpTo(S, n) == UNION {[1..k -> S] : k \in 0..n}

\* The goroutines that call RefreshStationData: the collection loop (and the startup
\* goroutine) through RefreshStationDataInternal, and the POST /api/refresh handler.
Callers == {"loop", "http"}

\* Mutant of convertToStation: every record gets the same station ID.
convertToStationFixedID(divvyStation) ==
    [StationID |-> "s1",
     Name |-> divvyStation.name,
     Capacity |-> divvyStation.capacity]

\* station_service.go:49-57
convertToStation(divvyStation) ==
    [StationID |-> divvyStation.station_id,
     Name |-> divvyStation.name,
     Capacity |-> divvyStation.capacity]

\* station_service.go:59-69
convertToAvailability(divvyStatus) ==
    [StationID |-> divvyStatus.station_id,
     NumBikesAvailable |-> divvyStatus.num_bikes_available]

\* divvy_client.go:51-71: both requests must succeed; g.Wait() returns the first
\* error of either and then no data is returned.
FetchStationData(infoOk, statusOk, infoBody, statusBody) ==
    IF infoOk /\ statusOk
    THEN [err |-> FALSE, stations |-> infoBody, statuses |-> statusBody]
    ELSE [err |-> TRUE, stations |-> <<>>, statuses |-> <<>>]

\* Mutant of Rollback: the statements executed before the failure stay.
RollbackKeepsWrites(before, working) == working

\* database.go:70, 102, 245: the deferred tx.Rollback() of a transaction that did not
\* commit undoes every statement it executed.
Rollback(before, working) == before

\* database.go:85, 125, 248: tx.Commit() returning nil makes them visible.
Commit(before, working) == working

\* database.go:14-23, queryUpsertStation applied to each row of the batch in order.
RECURSIVE UpsertRows(_, _)
UpsertRows(table, batch) ==
    IF batch = <<>>
    THEN table
    ELSE UpsertRows([id \in DOMAIN table \cup {Head(batch).StationID} |->
                        IF id = Head(batch).StationID
                        THEN [Name |-> Head(batch).Name, Capacity |-> Head(batch).Capacity]
                        ELSE table[id]],
                    Tail(batch))

\* Mutant of UpsertStations: a station that is stored, or came earlier in the batch,
\* is left as it is (ON CONFLICT DO NOTHING).
UpsertStationsFirstWins(table, stations, failAt) ==
    IF Len(stations) = 0 \/ failAt # 0
    THEN [err |-> Len(stations) # 0, table |-> table]
    ELSE [err |-> FALSE,
          table |-> [id \in DOMAIN table \cup {stations[i].StationID : i \in 1..Len(stations)} |->
                        IF id \in DOMAIN table
                        THEN table[id]
                        ELSE LET first == CHOOSE i \in 1..Len(stations) :
                                            /\ stations[i].StationID = id
                                            /\ \A j \in 1..(i - 1) : stations[j].StationID # id
                             IN  [Name |-> stations[first].Name,
                                  Capacity |-> stations[first].Capacity]]]

\* database.go:61-86.  failAt = 0: no statement fails; 1..Len: the exec of that row
\* fails; Len+1: BeginTx, Prepare or Commit fails.  A failure leaves the deferred
\* Rollback to undo the transaction.
UpsertStations(table, stations, failAt) ==
    IF Len(stations) = 0
    THEN [err |-> FALSE, table |-> table]
    ELSE LET n == IF failAt = 0 THEN Len(stations) ELSE Min(failAt - 1, Len(stations))
             working == UpsertRows(table, SubSeq(stations, 1, n))
         IN  IF failAt # 0
             THEN [err |-> TRUE, table |-> Rollback(table, working)]
             ELSE [err |-> FALSE, table |-> Commit(table, working)]

\* Mutant of ForeignKeyOk: the column without its REFERENCES constraint.
ForeignKeyNotEnforced(table, availabilities) == TRUE

\* 001_initial_schema.sql:13: station_id REFERENCES stations(station_id).
ForeignKeyOk(table, availabilities) ==
    \A i \in 1..Len(availabilities) : availabilities[i].StationID \in DOMAIN table

\* The first row of the batch whose station is not stored, 0 when there is none.
FirstOrphan(table, availabilities) ==
    IF ForeignKeyOk(table, availabilities)
    THEN 0
    ELSE CHOOSE i \in 1..Len(availabilities) :
            /\ availabilities[i].StationID \notin DOMAIN table
            /\ \A j \in 1..(i - 1) : availabilities[j].StationID \in DOMAIN table

\* database.go:88-126, with failAt as in UpsertStations; the insert of a row whose
\* station is not stored fails on the foreign key.
InsertAvailabilities(table, rows, availabilities, failAt) ==
    IF Len(availabilities) = 0
    THEN [err |-> FALSE, rows |-> rows]
    ELSE LET orphan == FirstOrphan(table, availabilities)
             stop == IF failAt = 0 THEN orphan
                     ELSE IF orphan = 0 THEN failAt ELSE Min(failAt, orphan)
             n == IF stop = 0 THEN Len(availabilities) ELSE Min(stop - 1, Len(availabilities))
             working == rows \o SubSeq(availabilities, 1, n)
         IN  IF stop # 0
             THEN [err |-> TRUE, rows |-> Rollback(rows, working)]
             ELSE [err |-> FALSE, rows |-> Commit(rows, working)]

IdleInvocation ==
    [pc |-> "idle", divvyStations |-> <<>>, divvyStatuses |-> <<>>,
     stations |-> <<>>, availabilities |-> <<>>, calls |-> <<>>,
     fetchErr |-> FALSE, upsertErr |-> "none", ret |-> "none"]

\* Mutant of RefreshFetched: the error of the fetch is not checked.
RefreshFetchedErrorIgnored(c, r) ==
    inv' = [inv EXCEPT ![c].pc = "upsert",
                       ![c].calls = <<"FetchStationData">>,
                       ![c].fetchErr = r.err,
                       ![c].divvyStations = r.stations,
                       ![c].divvyStatuses = r.statuses,
                       ![c].stations = [i \in 1..Len(r.stations) |-> convertToStation(r.stations[i])],
                       ![c].availabilities = [i \in 1..Len(r.statuses) |-> convertToAvailability(r.statuses[i])]]

\* station_service.go:22-35: FetchStationData is called; on an error the use case
\* returns it, else every station and every status is converted.
RefreshFetched(c, r) ==
    IF r.err
    THEN inv' = [inv EXCEPT ![c].pc = "done",
                            ![c].calls = <<"FetchStationData">>,
                            ![c].fetchErr = TRUE,
                            ![c].ret = "fetch error"]
    ELSE inv' = [inv EXCEPT ![c].pc = "upsert",
                            ![c].calls = <<"FetchStationData">>,
                            ![c].divvyStations = r.stations,
                            ![c].divvyStatuses = r.statuses,
                            ![c].stations = [i \in 1..Len(r.stations) |-> convertToStation(r.stations[i])],
                            ![c].availabilities = [i \in 1..Len(r.statuses) |-> convertToAvailability(r.statuses[i])]]

\* station_service.go:21-35, caller c's invocation up to the return of the fetch.
RefreshFetchBy(c) ==
    /\ inv[c].pc = "idle"
    /\ \E infoOk \in BOOLEAN, statusOk \in BOOLEAN,
          infoBody \in SeqsUpTo(DivvyStation, MaxFeedLen),
          statusBody \in SeqsUpTo(DivvyStationStatus, MaxFeedLen) :
          RefreshFetched(c, FetchStationData(infoOk, statusOk, infoBody, statusBody))

\* station_service.go:21-35, one caller's invocation up to the return of the fetch.
RefreshFetch ==
    /\ \E c \in Callers : RefreshFetchBy(c)
    /\ UNCHANGED <<schedVars, dbStations, dbAvail, clientVars, gatewayVars, facadeVars, configVars>>

\* What a feed may hold in a station: the JSON decoder accepts any string and any
\* integer, a missing field being the empty string or zero.
AnyDivvyStation ==
    [station_id : StationIDs \cup {""}, name : Names \cup {""}, capacity : Capacities \cup {-1}]
AnyDivvyStationStatus ==
    [station_id : StationIDs \cup {""}, num_bikes_available : BikeCounts]

\* types.go:19-30.
StationValidate(station) ==
    IF station.StationID = ""
    THEN "station ID is required"
    ELSE IF station.Name = ""
    THEN "station name is required"
    ELSE IF station.Capacity < 0
    THEN "capacity cannot be negative"
    ELSE "nil"

\* station_service.go:21-35, the collection loop's invocation up to the return of
\* the fetch, for any content of the feeds.
RefreshFetchAnyFeed ==
    /\ inv["loop"].pc = "idle"
    /\ \E infoOk \in BOOLEAN, statusOk \in BOOLEAN,
          infoBody \in SeqsUpTo(AnyDivvyStation, MaxFeedLen),
          statusBody \in SeqsUpTo(AnyDivvyStationStatus, MaxFeedLen) :
          RefreshFetched("loop", FetchStationData(infoOk, statusOk, infoBody, statusBody))
    /\ UNCHANGED <<schedVars, dbStations, dbAvail, clientVars, gatewayVars, facadeVars, configVars>>

\* Mutant of AfterUpsert: the error of the upsert is not checked.
AfterUpsertErrorIgnored(c, r) ==
    /\ dbStations' = r.table
    /\ inv' = [inv EXCEPT ![c].pc = "insert",
                          ![c].calls = Append(@, "UpsertStations"),
                          ![c].upsertErr = IF r.err THEN "err" ELSE "nil"]

\* station_service.go:37-39: the use case goes on after UpsertStations returned r.
AfterUpsert(c, r) ==
    /\ dbStations' = r.table
    /\ IF r.err
       THEN inv' = [inv EXCEPT ![c].pc = "done",
                               ![c].divvyStations = <<>>,
                               ![c].divvyStatuses = <<>>,
                               ![c].stations = <<>>,
                               ![c].availabilities = <<>>,
                               ![c].calls = Append(@, "UpsertStations"),
                               ![c].upsertErr = "err",
                               ![c].ret = "failed to store stations"]
       ELSE inv' = [inv EXCEPT ![c].pc = "insert",
                               ![c].calls = Append(@, "UpsertStations"),
                               ![c].upsertErr = "nil"]

\* station_service.go:37-39: UpsertStations is called and returns.
RefreshUpsertBy(c) ==
    /\ inv[c].pc = "upsert"
    /\ \E failAt \in 0..(Len(inv[c].stations) + 1) :
          AfterUpsert(c, UpsertStations(dbStations, inv[c].stations, failAt))

\* station_service.go:37-39, for one of the callers.
RefreshUpsert ==
    /\ \E c \in Callers : RefreshUpsertBy(c)
    /\ UNCHANGED <<schedVars, dbAvail, clientVars, gatewayVars, facadeVars, configVars>>

\* station_service.go:41-46: the use case returns after InsertAvailabilities returned r.
AfterInsert(c, r) ==
    /\ dbAvail' = r.rows
    /\ inv' = [inv EXCEPT ![c].pc = "done",
                          ![c].divvyStations = <<>>,
                          ![c].divvyStatuses = <<>>,
                          ![c].stations = <<>>,
                          ![c].availabilities = <<>>,
                          ![c].calls = Append(@, "InsertAvailabilities"),
                          ![c].ret = IF r.err THEN "failed to store availabilities" ELSE "nil"]

\* station_service.go:41-46: InsertAvailabilities is called and returns.
RefreshInsertBy(c) ==
    /\ inv[c].pc = "insert"
    /\ \E failAt \in 0..(Len(inv[c].availabilities) + 1) :
          AfterInsert(c, InsertAvailabilities(dbStations, dbAvail, inv[c].availabilities, failAt))

\* station_service.go:41-46, for one of the callers.
RefreshInsert ==
    /\ \E c \in Callers : RefreshInsertBy(c)
    /\ UNCHANGED <<schedVars, dbStations, clientVars, gatewayVars, facadeVars, configVars>>

(***************************************************************************)
(* Feed client: src/api/internal/divvy_client.go, FetchStationData with    *)
(* its two concurrent requests under one errgroup                          *)
(***************************************************************************)

Legs == {"info", "status"}

\* divvy_client.go:28-49, how one fetchJSON ends: "ok", or an error of the request
\* ("http": c.httpClient.Do fails, also when the group's context is cancelled), of
\* the status code ("status"), or of the decoding of the body ("decode").
LegOutcomes == {"ok", "http", "status", "decode"}

\* The bodies a leg may decode: lists of stations for the information feed, lists of
\* statuses for the status feed.
LegBodies(leg) ==
    IF leg = "info"
    THEN SeqsUpTo(DivvyStation, MaxFeedLen)
    ELSE SeqsUpTo(DivvyStationStatus, MaxFeedLen)

\* divvy_client.go:52-55: the zero-valued targets and the fresh errgroup.
IdleFetch ==
    [pc |-> "idle",
     leg |-> [l \in Legs |-> "none"],
     target |-> [l \in Legs |-> <<>>],
     order |-> <<>>,
     gerr |-> "none",
     gctx |-> "active",
     ret |-> [err |-> FALSE, stations |-> <<>>, statuses |-> <<>>]]

\* divvy_client.go:52-63: both goroutines are started.
FetchStart ==
    /\ fetch.pc = "idle"
    /\ fetch' = [fetch EXCEPT !.pc = "waiting", !.leg = [l \in Legs |-> "running"]]
    /\ UNCHANGED <<schedVars, inv, dbStations, dbAvail, run, gatewayVars, facadeVars, configVars>>

\* divvy_client.go:28-49 with errgroup.Group.Go: one request ends.  A decoded body
\* is in the target; a body that fails to decode may have filled a part of it; the
\* first error of the group is kept and cancels the group's context, and a request
\* that is still in flight then may as well fail with that cancellation.
FetchLegReturns ==
    /\ fetch.pc = "waiting"
    /\ \E l \in Legs, outcome \in LegOutcomes : \E body \in LegBodies(l) :
          /\ fetch.leg[l] = "running"
          /\ outcome \in {"http", "status"} => body = <<>>
          /\ fetch' = [fetch EXCEPT
                          !.leg[l] = outcome,
                          !.target[l] = body,
                          !.order = Append(@, l),
                          !.gerr = IF outcome # "ok" /\ @ = "none" THEN l ELSE @,
                          !.gctx = IF outcome # "ok" THEN "cancelled" ELSE @]
    /\ UNCHANGED <<schedVars, inv, dbStations, dbAvail, run, gatewayVars, facadeVars, configVars>>

\* Mutant of WaitResult: whatever the requests decoded is returned with the error.
WaitResultPartial(f) ==
    [err |-> f.gerr # "none", stations |-> f.target["info"], statuses |-> f.target["status"]]

\* divvy_client.go:65-70: g.Wait() gives the first error, and then nil slices are
\* returned; else the stations of both targets.
WaitResult(f) ==
    IF f.gerr # "none"
    THEN [err |-> TRUE, stations |-> <<>>, statuses |-> <<>>]
    ELSE [err |-> FALSE, stations |-> f.target["info"], statuses |-> f.target["status"]]

\* divvy_client.go:65-70: both goroutines have returned, g.Wait() and the call return.
FetchWait ==
    /\ fetch.pc = "waiting"
    /\ \A l \in Legs : fetch.leg[l] \notin {"none", "running"}
    /\ fetch' = [fetch EXCEPT !.pc = "returned", !.ret = WaitResult(fetch)]
    /\ UNCHANGED <<schedVars, inv, dbStations, dbAvail, run, gatewayVars, facadeVars, configVars>>

(***************************************************************************)
(* Prediction use case: src/unnamed/part_002 (inference.go), over the ML   *)
(* service client and the store of database.go                            *)
(***************************************************************************)

\* The longest predictions list the model draws.
MaxPredLen == 2

\* station_id and prediction_time as the ML service may send them: missing, and for
\* the time a text that is not RFC 3339 and one that is.
RawStationIDs == {"", "s1", "s2"}
TimeStrings == {"", "tomorrow", "2024-01-01T06:00:00Z"}

\* part_002:14-24, PredictionResponse with the fields the use case reads (class,
\* horizon and label are copied like station_id).
RawPrediction == [station_id : RawStationIDs, prediction_time : TimeStrings]
PredictionResponse ==
    [predictions : SeqsUpTo(RawPrediction, MaxPredLen), count : 0..(MaxPredLen + 1)]

\* The zero value of PredictionResponse.
ZeroResponse == [predictions |-> <<>>, count |-> 0]

\* Mutant of Validate: the count field is not compared with the list.
ValidateNoCount(p) ==
    IF Len(p.predictions) = 0
    THEN [err |-> "no predictions in response", p |-> p]
    ELSE IF \E i \in 1..Len(p.predictions) : p.predictions[i].station_id = ""
                                               \/ p.predictions[i].prediction_time = ""
    THEN [err |-> "missing field", p |-> p]
    ELSE [err |-> "nil", p |-> p]

RECURSIVE ValidateFrom(_, _)
\* part_002:33-40: the loop over the predictions from index i on.
ValidateFrom(p, i) ==
    IF i > Len(p.predictions)
    THEN "nil"
    ELSE IF p.predictions[i].station_id = ""
    THEN "missing station ID"
    ELSE IF p.predictions[i].prediction_time = ""
    THEN "missing prediction time"
    ELSE ValidateFrom(p, i + 1)

\* part_002:26-42.  The receiver is a pointer: p is the response as the call leaves it.
Validate(p) ==
    IF Len(p.predictions) = 0
    THEN [err |-> "no predictions in response", p |-> p]
    ELSE IF p.count # Len(p.predictions)
    THEN [err |-> "prediction count mismatch", p |-> p]
    ELSE [err |-> ValidateFrom(p, 1), p |-> p]

\* How the POST /predict request ends (part_002:59-78): "ok" is HTTP 200 with a body
\* that decodes; the others are the three error returns before Validate.
PredictOutcomes == {"ok", "http", "status", "decode"}

\* Mutant of GetPredictions: the decoded response is returned without validation.
GetPredictionsNoValidate(outcome, body) ==
    IF outcome # "ok"
    THEN [err |-> outcome, resp |-> <<>>]
    ELSE [err |-> "nil", resp |-> <<body>>]

\* part_002:58-86.  resp is the returned pointer: <<>> for nil, else the response.
GetPredictions(outcome, body) ==
    IF outcome # "ok"
    THEN [err |-> outcome, resp |-> <<>>]
    ELSE IF Validate(body).err # "nil"
    THEN [err |-> "invalid response", resp |-> <<>>]
    ELSE [err |-> "nil", resp |-> <<Validate(body).p>>]

\* time.Parse(time.RFC3339, s), part_002:152.
ParseRFC3339(s) ==
    IF s = "2024-01-01T06:00:00Z"
    THEN [err |-> FALSE, t |-> [from |-> "parsed", at |-> s]]
    ELSE [err |-> TRUE, t |-> [from |-> "zero", at |-> ""]]

\* What time.Now() may return while one conversion runs.
NowValues == {"12:00:00", "12:00:01"}

\* Mutant of convertOne: a time that does not parse is kept as the zero time.
convertOneNoSubstitute(pred, now) ==
    [StationID |-> pred.station_id, PredictionTime |-> ParseRFC3339(pred.prediction_time).t]

\* part_002:151-165, one iteration of the loop; now is time.Now().
convertOne(pred, now) ==
    [StationID |-> pred.station_id,
     PredictionTime |-> IF ParseRFC3339(pred.prediction_time).err
                        THEN [from |-> "now", at |-> now]
                        ELSE ParseRFC3339(pred.prediction_time).t]

\* part_002:142-169: always a nil error; nows[i] is time.Now() in iteration i.
convertPredictions(rawPredictions, nows) ==
    [err |-> "nil",
     predictions |-> [i \in 1..Len(rawPredictions) |-> convertOne(rawPredictions[i], nows[i])]]

\* Mutant of InsertPredictions: only the first record of the batch is written.
InsertPredictionsFirstOnly(rows, predictions, failAt, createdAt) ==
    IF Len(predictions) = 0
    THEN [err |-> FALSE, rows |-> rows]
    ELSE IF failAt # 0
    THEN [err |-> TRUE, rows |-> rows]
    ELSE [err |-> FALSE, rows |-> Append(rows, [StationID |-> predictions[1].StationID,
                                                PredictionTime |-> predictions[1].PredictionTime,
                                                CreatedAt |-> createdAt])]

\* Mutant of InsertPredictions: the batch takes the place of the stored rows.
InsertPredictionsOverwrite(rows, predictions, failAt, createdAt) ==
    IF Len(predictions) = 0 \/ failAt # 0
    THEN [err |-> Len(predictions) # 0, rows |-> rows]
    ELSE [err |-> FALSE,
          rows |-> [i \in 1..Len(predictions) |->
                      [StationID |-> predictions[i].StationID,
                       PredictionTime |-> predictions[i].PredictionTime,
                       CreatedAt |-> createdAt]]]

\* database.go:251-271 over withTransaction (232-249): nothing is done for an empty
\* batch; else the rows are inserted one by one in a transaction, created_at being the
\* database's CURRENT_TIMESTAMP.  failAt = 0: nothing fails; 1..Len: the exec of that
\* row fails; Len+1: BeginTx, Prepare or Commit fails.
InsertPredictions(rows, predictions, failAt, createdAt) ==
    IF Len(predictions) = 0
    THEN [err |-> FALSE, rows |-> rows]
    ELSE LET n == IF failAt = 0 THEN Len(predictions) ELSE Min(failAt - 1, Len(predictions))
             working == rows \o [i \in 1..n |->
                                    [StationID |-> predictions[i].StationID,
                                     PredictionTime |-> predictions[i].PredictionTime,
                                     CreatedAt |-> createdAt]]
         IN  IF failAt # 0
             THEN [err |-> TRUE, rows |-> Rollback(rows, working)]
             ELSE [err |-> FALSE, rows |-> Commit(rows, working)]

\* part_002:124 before the call.
IdleRun ==
    [pc |-> "idle", outcome |-> "none", body |-> ZeroResponse,
     got |-> [err |-> "nil", resp |-> <<>>],
     predictions |-> <<>>, calls |-> <<>>, insertErr |-> "none", ret |-> "none"]

\* part_002:125-133: GetPredictions is called once; on its error the use case returns
\* it, else the predictions are converted (the error of the conversion is checked).
RunGetPredictions ==
    /\ run.pc = "idle"
    /\ \E outcome \in PredictOutcomes, body \in PredictionResponse :
          /\ outcome # "ok" => body = ZeroResponse
          /\ LET got == GetPredictions(outcome, body)
             IN  IF got.err # "nil"
                 THEN run' = [run EXCEPT !.pc = "done", !.outcome = outcome, !.body = body,
                                         !.got = got, !.calls = <<"GetPredictions">>,
                                         !.ret = "get predictions"]
                 ELSE \E nows \in [1..Len(got.resp[1].predictions) -> NowValues] :
                         LET conv == convertPredictions(got.resp[1].predictions, nows)
                         IN  IF conv.err # "nil"
                             THEN run' = [run EXCEPT !.pc = "done", !.outcome = outcome,
                                                     !.body = body, !.got = got,
                                                     !.calls = <<"GetPredictions">>,
                                                     !.ret = "convert predictions"]
                             ELSE run' = [run EXCEPT !.pc = "insert", !.outcome = outcome,
                                                     !.body = body, !.got = got,
                                                     !.calls = <<"GetPredictions">>,
                                                     !.predictions = conv.predictions]
    /\ UNCHANGED <<schedVars, inv, dbStations, dbAvail, fetch, dbClock, dbPred, lastCall, facadeVars, configVars>>

\* part_002:135-139: InsertPredictions is called once with all the records, and the
\* use case returns.
RunInsertPredictions ==
    /\ run.pc = "insert"
    /\ \E failAt \in 0..(Len(run.predictions) + 1) :
          LET r == InsertPredictions(dbPred, run.predictions, failAt, dbClock)
          IN  /\ dbPred' = r.rows
              /\ run' = [run EXCEPT !.pc = "done",
                                    !.calls = Append(@, "InsertPredictions"),
                                    !.insertErr = IF r.err THEN "err" ELSE "nil",
                                    !.ret = IF r.err THEN "store predictions" ELSE "nil"]
    /\ UNCHANGED <<schedVars, inv, dbStations, dbAvail, fetch, dbClock, lastCall, facadeVars, configVars>>

(***************************************************************************)
(* Store: src/api/internal/database.go, its calls made in any order        *)
(***************************************************************************)

\* The longest batch a call of the store gets, the most rows the two append-only
\* tables hold together, and the latest CURRENT_TIMESTAMP.
MaxBatchLen == 2
MaxRows == 2
MaxDbClock == 1

\* types.go Station, StationAvailability and Prediction, the fields kept above.
Station == [StationID : StationIDs, Name : Names, Capacity : Capacities]
StationAvailability == [StationID : StationIDs, NumBikesAvailable : BikeCounts]
Prediction ==
    [StationID : StationIDs,
     PredictionTime : {[from |-> "parsed", at |-> "2024-01-01T06:00:00Z"]}]

NoCall == [op |-> "none", err |-> FALSE, batch |-> <<>>, result |-> <<>>]

\* ORDER BY station_id.
StationOrder == <<"s1", "s2">>

\* Mutant of Newest: the row that comes last in ORDER BY created_at DESC.
Oldest(rows, sid) ==
    {i \in 1..Len(rows) :
        /\ rows[i].StationID = sid
        /\ \A j \in 1..Len(rows) :
              rows[j].StationID = sid => rows[j].CreatedAt >= rows[i].CreatedAt}

\* The rows of a station that no row of the station follows in that order.
Newest(rows, sid) ==
    {i \in 1..Len(rows) :
        /\ rows[i].StationID = sid
        /\ \A j \in 1..Len(rows) :
              rows[j].StationID = sid => rows[j].CreatedAt <= rows[i].CreatedAt}

HasRows(rows, sid) == \E i \in 1..Len(rows) : rows[i].StationID = sid

\* database.go:273-298: SELECT DISTINCT ON (station_id) ... ORDER BY station_id,
\* created_at DESC keeps the first row of each station in that order; among rows of
\* one station with the same created_at any may come first.  The results the query
\* may give; id is the row's serial number.
GetLatestPredictions(rows) ==
    LET stations == SelectSeq(StationOrder, LAMBDA sid : HasRows(rows, sid))
    IN  {[k \in 1..Len(stations) |->
            [id |-> pick[k],
             StationID |-> rows[pick[k]].StationID,
             PredictionTime |-> rows[pick[k]].PredictionTime,
             CreatedAt |-> rows[pick[k]].CreatedAt]] :
         pick \in {f \in [1..Len(stations) -> 1..Len(rows)] :
                     \A k \in 1..Len(stations) : f[k] \in Newest(rows, stations[k])}}

\* database.go:61-86: one call; kept is what is remembered of its batch.
UpsertCall(batch, failAt, kept) ==
    LET r == UpsertStations(dbStations, batch, failAt)
    IN  /\ dbStations' = r.table
        /\ lastCall' = [op |-> "UpsertStations", err |-> r.err,
                        batch |-> kept, result |-> <<>>]
        /\ UNCHANGED <<schedVars, inv, dbAvail, clientVars, dbPred, dbClock, facadeVars, configVars>>

\* A batch as a feed gives it, each station once.
OncePerStation(batch) ==
    \A i, j \in 1..Len(batch) : batch[i].StationID = batch[j].StationID => i = j

\* database.go:61-86 called with any batch that lists each station once (UpsertFirst
\* has the batches that repeat one).
DbUpsertStations ==
    \E batch \in {b \in SeqsUpTo(Station, MaxBatchLen) : OncePerStation(b)} :
       \E failAt \in 0..(Len(batch) + 1) : UpsertCall(batch, failAt, <<>>)

\* database.go:61-86 called with a batch that is going to be sent again, as the
\* collection cycle does when the feed has not changed.
UpsertFirst ==
    /\ lastCall.op = "none"
    /\ \E batch \in SeqsUpTo(Station, MaxBatchLen) :
          \E failAt \in 0..(Len(batch) + 1) : UpsertCall(batch, failAt, batch)

\* database.go:61-86 called with the batch of the call before.
UpsertAgain ==
    /\ lastCall.op = "UpsertStations"
    /\ \E failAt \in 0..(Len(lastCall.batch) + 1) :
          UpsertCall(lastCall.batch, failAt, lastCall.batch)

\* database.go:88-126 called with any batch.
DbInsertAvailabilities ==
    /\ \E batch \in SeqsUpTo(StationAvailability, MaxBatchLen) :
          /\ \E failAt \in 0..(Len(batch) + 1) :
                LET r == InsertAvailabilities(dbStations, dbAvail, batch, failAt)
                IN  /\ Len(r.rows) + Len(dbPred) <= MaxRows
                    /\ dbAvail' = r.rows
                    /\ lastCall' = [op |-> "InsertAvailabilities", err |-> r.err,
                                    batch |-> <<>>, result |-> <<>>]
    /\ UNCHANGED <<schedVars, inv, dbStations, clientVars, dbPred, dbClock, facadeVars, configVars>>

\* database.go:251-271 called with any batch.
DbInsertPredictions ==
    /\ \E batch \in SeqsUpTo(Prediction, MaxBatchLen) :
          /\ \E failAt \in 0..(Len(batch) + 1) :
                LET r == InsertPredictions(dbPred, batch, failAt, dbClock)
                IN  /\ Len(dbAvail) + Len(r.rows) <= MaxRows
                    /\ dbPred' = r.rows
                    /\ lastCall' = [op |-> "InsertPredictions", err |-> r.err,
                                    batch |-> <<>>, result |-> <<>>]
    /\ UNCHANGED <<schedVars, inv, dbStations, dbAvail, clientVars, dbClock, facadeVars, configVars>>

\* database.go:273-298: the query fails, or returns its rows.
DbGetLatestPredictions ==
    /\ \E ok \in BOOLEAN :
          IF ok
          THEN \E result \in GetLatestPredictions(dbPred) :
                  lastCall' = [op |-> "GetLatestPredictions", err |-> FALSE,
                               batch |-> <<>>, result |-> result]
          ELSE lastCall' = [op |-> "GetLatestPredictions", err |-> TRUE,
                            batch |-> <<>>, result |-> <<>>]
    /\ UNCHANGED <<schedVars, inv, dbStations, dbAvail, clientVars, dbPred, dbClock, facadeVars, configVars>>

\* CURRENT_TIMESTAMP moves on.
DbTick ==
    /\ dbClock < MaxDbClock
    /\ dbClock' = dbClock + 1
    /\ UNCHANGED <<schedVars, inv, dbStations, dbAvail, clientVars, dbPred, lastCall, facadeVars, configVars>>

\* server.go:176-190 and 213-221: the prediction loop calls RunInferenceWithResults
\* again, after a failed attempt or at the next tick; the runs stop once the
\* predictions table holds more than one row.
RunAgain ==
    /\ run.pc = "done"
    /\ Len(dbPred) <= 1
    /\ run' = IdleRun
    /\ UNCHANGED <<schedVars, inv, dbStations, dbAvail, fetch, gatewayVars, facadeVars, configVars>>

\* server.go:142 and 161: a collection cycle of the loop, begun between two prediction
\* runs.
CycleFetch ==
    /\ run.pc = "idle"
    /\ RefreshFetchBy("loop")
    /\ UNCHANGED <<schedVars, dbStations, dbAvail, clientVars, gatewayVars, facadeVars, configVars>>

CycleUpsert ==
    /\ RefreshUpsertBy("loop")
    /\ UNCHANGED <<schedVars, dbAvail, clientVars, gatewayVars, facadeVars, configVars>>

CycleInsert ==
    /\ RefreshInsertBy("loop")
    /\ UNCHANGED <<schedVars, dbStations, clientVars, gatewayVars, facadeVars, configVars>>

\* A prediction run that begins before the collection cycle does: the runs come first,
\* then one cycle (a cycle and a run write different tables, so the order of their
\* steps makes no difference to either).
RunBeforeCycle ==
    /\ inv["loop"].pc = "idle"
    /\ RunGetPredictions

(***************************************************************************)
(* Serving facade: src/api/internal/server.go setupRoutes and              *)
(* src/api/internal/http_handlers.go                                       *)
(***************************************************************************)

\* Requests a client may send: the routed ones the handlers below serve, and the
\* paths under which the handler tests and the API prefix would put the trigger of
\* the inference use case.
Requests ==
    {"GET /health", "GET /api/stations/json", "POST /api/refresh",
     "POST /inference", "POST /api/inference"}

\* The mode parameter of GET /api/stations/json; absent, it is "current".
Modes == {"current", "predicted"}

\* server.go:38-60: the handler registered for a request; gin answers 404 to a request
\* that no route matches.
Route(request) ==
    CASE request = "GET /health" -> "HealthCheck"
      [] request = "GET /api/stations/json" -> "GetStationsJSON"
      [] request = "POST /api/refresh" -> "RefreshStationData"
      [] OTHER -> "NotFound"

\* No request has been answered.
NoReply ==
    [request |-> "", mode |-> "", handler |-> "none", queries |-> <<>>,
     runs |-> 0, status |-> 0, health |-> "", count |-> 0, stations |-> <<>>]

\* ORDER BY s.name.
NameOrder == <<"A", "B">>

\* database.go:128-167: every stored station, ordered by name, with the bikes count of
\* its latest availability row, 0 when it has none (COALESCE).  Stations of one name
\* come in the order of their IDs here; SQL leaves their order open.
GetStationsWithAvailability(stations, rows) ==
    LET ids(name) == SelectSeq(StationOrder,
                               LAMBDA sid : sid \in DOMAIN stations /\ stations[sid].Name = name)
        ordered == ids(NameOrder[1]) \o ids(NameOrder[2])
        last(sid) == CHOOSE i \in 1..Len(rows) :
                        /\ rows[i].StationID = sid
                        /\ \A j \in (i + 1)..Len(rows) : rows[j].StationID # sid
    IN  [k \in 1..Len(ordered) |->
            [StationID |-> ordered[k],
             Name |-> stations[ordered[k]].Name,
             Capacity |-> stations[ordered[k]].Capacity,
             NumBikesAvailable |-> IF HasRows(rows, ordered[k])
                                   THEN rows[last(ordered[k])].NumBikesAvailable
                                   ELSE 0]]

\* Mutant of HealthCheck: an empty result counts as healthy.
HealthCheckEmptyIsHealthy(err, predictions) ==
    IF err
    THEN [status |-> 503, health |-> "unhealthy", count |-> 0]
    ELSE [status |-> 200, health |-> "healthy", count |-> Len(predictions)]

\* http_handlers.go:110-128: the answer to the outcome of GetLatestPredictions.
HealthCheck(err, predictions) ==
    IF err \/ Len(predictions) = 0
    THEN [status |-> 503, health |-> "unhealthy", count |-> 0]
    ELSE [status |-> 200, health |-> "healthy", count |-> Len(predictions)]

\* http_handlers.go:70-93: the answer to the outcomes of the queries; the predictions
\* are queried in mode "predicted" only, after the stations.
GetStationsJSON(mode, stationsErr, stations, predErr, predictions) ==
    IF stationsErr
    THEN [status |-> 500, stations |-> <<>>, count |-> 0,
          queries |-> <<[op |-> "GetStationsWithAvailability", err |-> TRUE]>>]
    ELSE IF mode = "predicted"
    THEN IF predErr \/ Len(predictions) = 0
         THEN [status |-> 503, stations |-> <<>>, count |-> 0,
               queries |-> <<[op |-> "GetStationsWithAvailability", err |-> FALSE],
                             [op |-> "GetLatestPredictions", err |-> predErr]>>]
         ELSE [status |-> 200, stations |-> stations, count |-> Len(predictions),
               queries |-> <<[op |-> "GetStationsWithAvailability", err |-> FALSE],
                             [op |-> "GetLatestPredictions", err |-> FALSE]>>]
    ELSE [status |-> 200, stations |-> stations, count |-> 0,
          queries |-> <<[op |-> "GetStationsWithAvailability", err |-> FALSE]>>]

\* http_handlers.go:95-104: the answer to what the use case returned.
RefreshStationData(ret) ==
    [status |-> IF ret # "nil" THEN 500 ELSE 200]

\* http_handlers.go:132-142: the answer to what RunInferenceWithResults returned.  No
\* route of setupRoutes leads to this handler.
TriggerInference(ret) ==
    [status |-> IF ret # "nil" THEN 500 ELSE 200]

\* GET /health is served.
ServeHealth ==
    /\ \E request \in Requests, err \in BOOLEAN, predictions \in GetLatestPredictions(dbPred) :
          /\ Route(request) = "HealthCheck"
          /\ LET r == HealthCheck(err, IF err THEN <<>> ELSE predictions)
             IN  reply' = [NoReply EXCEPT !.request = request,
                                          !.handler = "HealthCheck",
                                          !.queries = <<[op |-> "GetLatestPredictions",
                                                         err |-> err]>>,
                                          !.status = r.status,
                                          !.health = r.health,
                                          !.count = r.count]
    /\ UNCHANGED <<schedVars, inv, dbStations, dbAvail, clientVars, gatewayVars, configVars>>

\* GET /api/stations/json is served.
ServeStationsJSON ==
    /\ \E request \in Requests, mode \in Modes, stationsErr \in BOOLEAN, predErr \in BOOLEAN,
          predictions \in GetLatestPredictions(dbPred) :
          /\ Route(request) = "GetStationsJSON"
          /\ LET r == GetStationsJSON(mode, stationsErr,
                                      GetStationsWithAvailability(dbStations, dbAvail),
                                      predErr, IF predErr THEN <<>> ELSE predictions)
             IN  reply' = [NoReply EXCEPT !.request = request,
                                          !.mode = mode,
                                          !.handler = "GetStationsJSON",
                                          !.queries = r.queries,
                                          !.status = r.status,
                                          !.count = r.count,
                                          !.stations = r.stations]
    /\ UNCHANGED <<schedVars, inv, dbStations, dbAvail, clientVars, gatewayVars, configVars>>

\* A request that no route matches is answered by the router.
ServeUnrouted ==
    /\ \E request \in Requests :
          /\ Route(request) = "NotFound"
          /\ reply' = [NoReply EXCEPT !.request = request,
                                      !.handler = "NotFound",
                                      !.status = 404]
    /\ UNCHANGED <<schedVars, inv, dbStations, dbAvail, clientVars, gatewayVars, configVars>>

\* The reply of POST /api/refresh once the use case has returned in the next state;
\* until then nothing is answered.
RefreshReplied ==
    reply' = IF inv'["http"].pc = "done"
             THEN [NoReply EXCEPT !.request = "POST /api/refresh",
                                  !.handler = "RefreshStationData",
                                  !.runs = 1,
                                  !.status = RefreshStationData(inv'["http"].ret).status]
             ELSE reply

\* POST /api/refresh is routed to its handler, which calls the use case: the steps of
\* that call.
ServeRefreshFetch ==
    /\ Route("POST /api/refresh") = "RefreshStationData"
    /\ RefreshFetchBy("http")
    /\ RefreshReplied
    /\ UNCHANGED <<schedVars, dbStations, dbAvail, clientVars, gatewayVars, configVars>>

ServeRefreshUpsert ==
    /\ RefreshUpsertBy("http")
    /\ RefreshReplied
    /\ UNCHANGED <<schedVars, dbAvail, clientVars, gatewayVars, configVars>>

ServeRefreshInsert ==
    /\ RefreshInsertBy("http")
    /\ RefreshReplied
    /\ UNCHANGED <<schedVars, dbStations, clientVars, gatewayVars, configVars>>

(***************************************************************************)
(* Configuration: src/unnamed/part_003 (config.go), and what main and      *)
(* Server.Start do with it                                                 *)
(***************************************************************************)

\* Values of the environment variables that hold integers, and the integers they and
\* the defaults give.
EnvInts == {"", "abc", "0", "-1", "1"}
Intervals == {-1, 0, 1, 2, 15}

\* strconv.Atoi on those values: the integer, or nothing on an error.
Atoi(val) ==
    CASE val = "0" -> <<0>>
      [] val = "-1" -> <<-1>>
      [] val = "1" -> <<1>>
      [] OTHER -> <<>>

\* part_003:76-81.
getEnv(value, defaultValue) == IF value # "" THEN value ELSE defaultValue

\* part_003:96-106.
getEnvInt(val, defaultValue) ==
    IF val = "" THEN defaultValue
    ELSE IF Atoi(val) # <<>> THEN Atoi(val)[1]
    ELSE defaultValue

\* part_003:21-44, the fields that Validate and the two tickers read.
Configs ==
    [URL : {"", "postgres://db"}, Port : {"", "8080"},
     DataCollectionIntervalMin : Intervals, PredictionIntervalHours : Intervals]

\* part_003:46-74, from the values of DB_URL, SERVER_PORT, DATA_COLLECTION_INTERVAL_MIN
\* and PREDICTION_INTERVAL_HOURS.
LoadConfig(dbURL, serverPort, dataCollection, prediction) ==
    [URL |-> getEnv(dbURL, ""),
     Port |-> getEnv(serverPort, "8080"),
     DataCollectionIntervalMin |-> getEnvInt(dataCollection, 15),
     PredictionIntervalHours |-> getEnvInt(prediction, 2)]

\* Mutant of ConfigValidate: the port is not checked.
ConfigValidateNoPort(c) ==
    IF c.URL = "" THEN "DB_URL is required but not provided"
    ELSE IF c.DataCollectionIntervalMin <= 0 THEN "data collection interval must be positive"
    ELSE "nil"

\* part_003:83-94, Config.Validate.
ConfigValidate(c) ==
    IF c.URL = "" THEN "DB_URL is required but not provided"
    ELSE IF c.DataCollectionIntervalMin <= 0 THEN "data collection interval must be positive"
    ELSE IF c.Port = "" THEN "server port is required"
    ELSE "nil"

\* time.NewTicker: it panics when the period is not positive.
NewTicker(period) == IF period <= 0 THEN "panic" ELSE "ticking"

\* A configuration has been built and nothing has been done with it.
NotBooted == [source |-> "struct", err |-> "none", main |-> "new", coll |-> "none"]

\* The process of the other specifications: its configuration was accepted and both
\* loops run with the intervals above.
Booted ==
    /\ config = [URL |-> "postgres://db", Port |-> "8080",
                 DataCollectionIntervalMin |-> DataCollectionIntervalMin,
                 PredictionIntervalHours |-> PredictionIntervalHours]
    /\ boot = [source |-> "env", err |-> "nil", main |-> "serving", coll |-> "ticking"]

\* app.test.js:385, main loads its configuration from the environment.
MainLoadConfig ==
    /\ boot.main = "new"
    /\ boot.source = "struct"
    /\ \E dbURL \in {"", "postgres://db"}, serverPort \in {"", "8080"},
          dataCollection \in EnvInts, prediction \in EnvInts :
          config' = LoadConfig(dbURL, serverPort, dataCollection, prediction)
    /\ boot' = [boot EXCEPT !.source = "env"]
    /\ UNCHANGED <<schedVars, inv, dbStations, dbAvail, clientVars, gatewayVars, facadeVars>>

\* app.test.js:387-389: Validate is called, and on an error main ends with log.Fatal.
MainValidate ==
    /\ boot.main = "new"
    /\ boot' = [boot EXCEPT !.err = ConfigValidate(config),
                            !.main = IF ConfigValidate(config) # "nil"
                                     THEN "fatal" ELSE "validated"]
    /\ UNCHANGED <<schedVars, inv, dbStations, dbAvail, clientVars, gatewayVars, facadeVars,
                   config>>

\* server.go:91 and 125-131: Start spawns the collection goroutine, which first waits
\* for the next boundary.
StartDataCollection ==
    /\ boot.main = "validated"
    /\ boot' = [boot EXCEPT !.main = "collecting", !.coll = "waitFirst"]
    /\ UNCHANGED <<schedVars, inv, dbStations, dbAvail, clientVars, gatewayVars, facadeVars,
                   config>>

\* server.go:93 and 198-200: Start calls StartPredictionService, which creates its
\* ticker before it spawns its goroutine.
StartPredictionTicker ==
    /\ boot.main = "collecting"
    /\ boot' = [boot EXCEPT !.main =
                   IF NewTicker(config.PredictionIntervalHours) = "panic"
                   THEN "panic" ELSE "serving"]
    /\ UNCHANGED <<schedVars, inv, dbStations, dbAvail, clientVars, gatewayVars, facadeVars,
                   config>>

\* server.go:136-151: after the first boundary the collection goroutine creates its
\* ticker, unless the process has ended.
StartCollectionTicker ==
    /\ boot.coll = "waitFirst"
    /\ boot.main # "panic"
    /\ boot' = [boot EXCEPT !.coll = NewTicker(config.DataCollectionIntervalMin)]
    /\ UNCHANGED <<schedVars, inv, dbStations, dbAvail, clientVars, gatewayVars, facadeVars,
                   config>>

(***************************************************************************)
(* Specifications                                                          *)
(***************************************************************************)

SchedIdle ==
    /\ mainPc = "init"
    /\ ctx = "background"
    /\ collPc = "none" /\ collTimer = 0 /\ collTick = FALSE /\ collWaited = 0
    /\ collStartClock = 0 /\ collLast = "none"
    /\ predPc = "none" /\ predElapsed = 0 /\ predRetry = 0 /\ predAttempts = 0
    /\ predInitResult = "none" /\ predSinceRun = 0 /\ predDoomed = FALSE
    /\ predTickerStopped = FALSE /\ predTickTimer = 0 /\ predTick = FALSE
    /\ startupPc = "none" /\ startupResult = "none" /\ httpPc = "idle"
    /\ startedAfterCancel = FALSE

StoreIdle ==
    /\ inv = [c \in Callers |-> IdleInvocation]
    /\ dbAvail = <<>>
    /\ fetch = IdleFetch
    /\ run = IdleRun
    /\ dbPred = <<>>
    /\ dbClock = 0
    /\ lastCall = NoCall
    /\ reply = NoReply
    /\ Booted

\* The process at the start of main, at any phase of the wall clock, over an empty store.
Init ==
    /\ SchedIdle
    /\ clock \in 0..(DataCollectionIntervalMin - 1)
    /\ StoreIdle
    /\ dbStations = <<>>

Next ==
    \/ ServerStart
    \/ StartLoopsWithContext
    \/ CancelContext
    \/ Signal
    \/ ServerExit
    \/ CollFirstSelect
    \/ CollFirstReturns
    \/ CollLoopSelect
    \/ CollTickReturns
    \/ PredRetrySelect
    \/ PredRunReturns
    \/ PredLoopSelect
    \/ StartupRefreshBegin
    \/ StartupRefreshReturns
    \/ HTTPRefreshBegin
    \/ HTTPRefreshReturns
    \/ Tick

\* The scheduler: main, the two loops, the startup refresh and POST /api/refresh.
Spec == Init /\ [][Next]_vars

\* Goroutines that can run do run, calls in flight return (every HTTP client and
\* every request has a timeout), and time passes.
Fairness ==
    /\ WF_vars(Tick)
    /\ WF_vars(CollFirstSelect) /\ WF_vars(CollFirstReturns)
    /\ WF_vars(CollLoopSelect) /\ WF_vars(CollTickReturns)
    /\ WF_vars(PredRetrySelect) /\ WF_vars(PredRunReturns) /\ WF_vars(PredLoopSelect)
    /\ WF_vars(StartupRefreshBegin) /\ WF_vars(StartupRefreshReturns)
    /\ WF_vars(HTTPRefreshReturns)

FairSpec == Spec /\ Fairness

\* RefreshStationData called by two goroutines over a store that may hold a station.
RefreshInit ==
    /\ SchedIdle
    /\ clock = 0
    /\ StoreIdle
    /\ dbStations \in {<<>>, [id \in {"s1"} |-> [Name |-> "A", Capacity |-> 15]]}

RefreshNext ==
    \/ RefreshFetch
    \/ RefreshUpsert
    \/ RefreshInsert

RefreshSpec == RefreshInit /\ [][RefreshNext]_vars

\* One collection cycle over feeds of any content.
AnyFeedNext ==
    \/ RefreshFetchAnyFeed
    \/ RefreshUpsert
    \/ RefreshInsert

AnyFeedSpec == RefreshInit /\ [][AnyFeedNext]_vars

\* One FetchStationData call, its two requests ending in either order.
FetchInit ==
    /\ SchedIdle
    /\ clock = 0
    /\ StoreIdle
    /\ dbStations = <<>>

FetchNext ==
    \/ FetchStart
    \/ FetchLegReturns
    \/ FetchWait

FetchSpec == FetchInit /\ [][FetchNext]_vars

\* One RunInferenceWithResults invocation over a predictions table that may hold a row.
InferInit ==
    /\ SchedIdle
    /\ clock = 0
    /\ inv = [c \in Callers |-> IdleInvocation]
    /\ dbAvail = <<>>
    /\ fetch = IdleFetch
    /\ run = IdleRun
    /\ dbStations = <<>>
    /\ dbClock = 1
    /\ lastCall = NoCall
    /\ reply = NoReply
    /\ Booted
    /\ dbPred \in {<<>>, <<[StationID |-> "s1",
                            PredictionTime |-> [from |-> "now", at |-> "12:00:00"],
                            CreatedAt |-> 0]>>}

InferNext ==
    \/ RunGetPredictions
    \/ RunInsertPredictions

InferSpec == InferInit /\ [][InferNext]_vars

\* The store after the migrations, called in any order by the use cases and handlers.
DbInit ==
    /\ SchedIdle
    /\ clock = 0
    /\ StoreIdle
    /\ dbStations = <<>>

DbNext ==
    \/ DbUpsertStations
    \/ DbInsertAvailabilities
    \/ DbInsertPredictions
    \/ DbGetLatestPredictions
    \/ DbTick

DbSpec == DbInit /\ [][DbNext]_vars

\* The stations table with some station stored, and one batch upserted time and again.
UpsertInit ==
    /\ SchedIdle
    /\ clock = 0
    /\ StoreIdle
    /\ dbStations \in {<<>>} \cup {[id \in {row.StationID} |->
                                      [Name |-> row.Name, Capacity |-> row.Capacity]] :
                                   row \in Station}

UpsertNext ==
    \/ UpsertFirst
    \/ UpsertAgain

UpsertSpec == UpsertInit /\ [][UpsertNext]_vars

\* The HTTP server over a store that the scheduled runs have filled with some
\* predictions: requests are served one after the other.
FacadeInit ==
    /\ SchedIdle
    /\ clock = 0
    /\ inv = [c \in Callers |-> IdleInvocation]
    /\ dbAvail = <<>>
    /\ fetch = IdleFetch
    /\ run = IdleRun
    /\ dbStations \in {<<>>, [id \in {"s1"} |-> [Name |-> "A", Capacity |-> 15]]}
    /\ dbClock = 1
    /\ lastCall = NoCall
    /\ reply = NoReply
    /\ Booted
    /\ dbPred \in {SubSeq(<<[StationID |-> "s1",
                             PredictionTime |-> [from |-> "now", at |-> "12:00:00"],
                             CreatedAt |-> 0],
                            [StationID |-> sid,
                             PredictionTime |-> [from |-> "now", at |-> "12:00:01"],
                             CreatedAt |-> 1]>>, 1, n) : n \in 0..2, sid \in StationIDs}

FacadeNext ==
    \/ ServeHealth
    \/ ServeStationsJSON
    \/ ServeUnrouted
    \/ ServeRefreshFetch
    \/ ServeRefreshUpsert
    \/ ServeRefreshInsert

FacadeSpec == FacadeInit /\ [][FacadeNext]_vars

\* main from a configuration of any content, loaded from the environment or built as
\* a struct, up to the start of both loops.
ConfigInit ==
    /\ SchedIdle
    /\ clock = 0
    /\ inv = [c \in Callers |-> IdleInvocation]
    /\ dbAvail = <<>>
    /\ fetch = IdleFetch
    /\ run = IdleRun
    /\ dbStations = <<>>
    /\ dbPred = <<>>
    /\ dbClock = 0
    /\ lastCall = NoCall
    /\ reply = NoReply
    /\ config \in Configs
    /\ boot = NotBooted

ConfigNext ==
    \/ MainLoadConfig
    \/ MainValidate
    \/ StartDataCollection
    \/ StartPredictionTicker
    \/ StartCollectionTicker

ConfigSpec == ConfigInit /\ [][ConfigNext]_vars

\* The prediction loop's runs one after the other over a store that starts empty,
\* with collection cycles and health requests in between.
HealthInit ==
    /\ SchedIdle
    /\ clock = 0
    /\ StoreIdle
    /\ dbStations = <<>>

HealthNext ==
    \/ RunBeforeCycle
    \/ RunInsertPredictions
    \/ RunAgain
    \/ ServeHealth
    \/ CycleFetch
    \/ CycleUpsert
    \/ CycleInsert

HealthSpec == HealthInit /\ [][HealthNext]_vars

(***************************************************************************)
(* Claims                                                                  *)
(***************************************************************************)

InInitialPhase == predPc \in {"attempt", "retryWait"}

\* C1: once the initial phase has ended, the prediction loop, while it is not
\* cancelled, starts a RunInferenceWithResults at every prediction interval: it never
\* sits in its ticker select for more than one whole interval.
C1_PeriodicPredictionRuns ==
    (Alive /\ predPc = "tickWait" /\ ctx # "done") => predSinceRun <= PredictionIntervalHours

\* C2 (amended): the collection loop makes no RefreshStationData call while it waits
\* for its first boundary; the wait is greater than zero and at most one interval and
\* ends exactly on the next multiple of the interval, where the first call is made.
\* The startup refresh of main has begun its own cycle before that.
C2_FirstFetchAtBoundary ==
    /\ collPc = "waitFirst" =>
          /\ collLast = "none"
          /\ (clock + collTimer) % DataCollectionIntervalMin = 0
          /\ collWaited + collTimer \in 1..DataCollectionIntervalMin
          /\ collTimer = 0 => collTick
    /\ collPc = "runFirst" =>
          /\ collWaited \in 1..DataCollectionIntervalMin
          /\ collStartClock = 0
          /\ mainPc \in {"serving", "shuttingDown"} => startupPc \in {"running", "done"}

\* C2 witness: the loop's first call is in flight, made after a whole interval's wait,
\* while the startup refresh of main is still running.
C2_Witness ==
    /\ collPc = "runFirst"
    /\ collWaited = DataCollectionIntervalMin
    /\ startupPc = "running"

\* C2 as stated: the above, and no collection cycle at all is started by the process
\* before the loop's first boundary.
C2_NoCycleBeforeBoundary ==
    /\ C2_FirstFetchAtBoundary
    /\ collPc = "waitFirst" => (startupPc \notin {"running", "done"} /\ httpPc = "idle")

\* C3: every collection run after the first starts on a multiple of the interval.
C3_TickRunsAligned ==
    collPc = "runTick" => collStartClock = 0

\* C4: a loop whose context is cancelled starts no further use-case call.
C4_NoStartAfterCancel ==
    ~startedAfterCancel

\* C5: the shutdown signal reaches both loops: when the process exits after the
\* signal, each loop has observed cancellation and taken its shutting-down exit.
C5_SignalReachesLoops ==
    mainPc = "exited" => (collPc = "exit" /\ predPc = "exit")

\* C6: neither loop blocks or delays the other: a loop whose timer has fired can run
\* its cycle at once, and time does not pass before it does, whatever the other loop
\* is doing, be it blocked in a call in flight or back from a failed one.
C6_LoopsIndependent ==
    /\ [](Alive =>
            /\ (collPc = "waitFirst" /\ collTick) => ENABLED CollFirstSelect
            /\ (collPc = "waitTick" /\ collTick) => ENABLED CollLoopSelect
            /\ (predPc = "retryWait" /\ predRetry = 0) => ENABLED PredRetrySelect
            /\ (predPc = "tickWait" /\ predTick) => ENABLED PredLoopSelect)
    /\ [][clock' # clock =>
            /\ ~(collPc \in {"waitFirst", "waitTick"} /\ collTick)
            /\ ~(predPc = "retryWait" /\ predRetry = 0)
            /\ ~(predPc = "tickWait" /\ predTick)]_vars

\* C6 witness: the collection loop runs a scheduled cycle while the first prediction
\* attempt has been blocked in its call for longer than the maximum wait.
C6_Witness ==
    /\ collPc = "runTick"
    /\ predPc = "attempt" /\ predAttempts = 1 /\ predElapsed > MLServiceMaxWaitMin

\* C7: the initial retry phase ends.  It is over as soon as an attempt succeeds; a new
\* attempt follows a failed one only when the check interval has run out, and is begun
\* only while the elapsed time does not exceed the maximum wait; so the attempts are
\* bounded, and the phase ends in a timeout when none succeeds (or with ctx.Err()).
C7_InitialPhaseTerminates ==
    /\ [](/\ predAttempts <= (MLServiceMaxWaitMin \div MLServiceCheckIntervalSec) + 1
          /\ InInitialPhase => predInitResult = "none"
          /\ predInitResult = "timeout" => predAttempts >= 1)
    /\ [][/\ (predPc = "retryWait" /\ predPc' = "attempt") => predRetry = 0
          /\ (predPc # "attempt" /\ predPc' = "attempt") => predElapsed' <= MLServiceMaxWaitMin
          /\ (predPc = "attempt" /\ predPc' = "tickWait") => predInitResult' = "ok"
          /\ (predPc = "retryWait" /\ predPc' = "tickWait" /\ predInitResult' = "timeout") =>
                predElapsed > MLServiceMaxWaitMin]_vars
    /\ InInitialPhase ~> (~InInitialPhase \/ ~Alive)

\* C7 witness: the phase has ended in a timeout after the most attempts the waits allow.
C7_Witness ==
    /\ predInitResult = "timeout"
    /\ predAttempts = (MLServiceMaxWaitMin \div MLServiceCheckIntervalSec) + 1

\* C8: an error of a use case ends neither loop, and the loop calls the use case again
\* at its next tick: after a failed collection cycle the collection loop is in its
\* ticker loop, and after failed prediction runs the prediction loop does not sit in
\* its ticker select for more than one prediction interval.
C8_ErrorsKeepLoopsRunning ==
    (Alive /\ ctx # "done") =>
        /\ collLast = "err" => collPc \in {"waitTick", "runTick"}
        /\ startupResult = "err" => (collPc # "exit" /\ predPc # "exit")
        /\ (predInitResult = "timeout" /\ predPc = "tickWait") =>
              predSinceRun <= PredictionIntervalHours

\* C9: an invocation whose fetch returned an error has called neither UpsertStations
\* nor InsertAvailabilities and has returned an error, and the step in which it got
\* the error leaves both tables as they were.
C9_FetchErrorNoWrites ==
    /\ [](\A c \in Callers : inv[c].fetchErr =>
            /\ inv[c].calls = <<"FetchStationData">>
            /\ inv[c].pc = "done"
            /\ inv[c].ret \notin {"none", "nil"})
    /\ [][(\E c \in Callers : ~inv[c].fetchErr /\ inv'[c].fetchErr) =>
            (dbStations' = dbStations /\ dbAvail' = dbAvail)]_vars

\* C9 witness: one caller's fetch has failed after the other caller has written rows.
C9_Witness ==
    /\ inv["loop"].fetchErr /\ inv["loop"].pc = "done"
    /\ inv["http"].ret = "nil" /\ dbAvail # <<>>

\* C10: an invocation calls InsertAvailabilities only after its UpsertStations has
\* returned without an error; when the upsert returned an error the insert is not
\* called and the invocation has returned an error.
C10_UpsertBeforeInsert ==
    \A c \in Callers :
        /\ (\E i \in 1..Len(inv[c].calls) : inv[c].calls[i] = "InsertAvailabilities") =>
              /\ inv[c].calls = <<"FetchStationData", "UpsertStations", "InsertAvailabilities">>
              /\ inv[c].upsertErr = "nil"
        /\ inv[c].pc = "insert" => inv[c].upsertErr = "nil"
        /\ inv[c].upsertErr = "err" =>
              /\ inv[c].calls = <<"FetchStationData", "UpsertStations">>
              /\ inv[c].pc = "done"
              /\ inv[c].ret = "failed to store stations"

\* C10 witness: one invocation has ended on a failed upsert, another has stored
\* availability rows after its upsert.
C10_Witness ==
    /\ inv["loop"].upsertErr = "err" /\ inv["loop"].pc = "done"
    /\ inv["http"].calls = <<"FetchStationData", "UpsertStations", "InsertAvailabilities">>
    /\ inv["http"].ret = "nil" /\ dbAvail # <<>>

CountCalls(calls, name) == Cardinality({i \in 1..Len(calls) : calls[i] = name})

SameIDs(records, source) ==
    /\ Len(records) = Len(source)
    /\ \A i \in 1..Len(records) : records[i].StationID = source[i].station_id

C12_NoPartialSuccess ==
    fetch.pc = "returned" =>
        /\ Len(fetch.order) = 2 /\ {fetch.order[1], fetch.order[2]} = Legs
        /\ ~fetch.ret.err <=> (\A l \in Legs : fetch.leg[l] = "ok")
        /\ fetch.ret.err => (fetch.ret.stations = <<>> /\ fetch.ret.statuses = <<>>)
        /\ ~fetch.ret.err => /\ fetch.ret.stations = fetch.target["info"]
                             /\ fetch.ret.statuses = fetch.target["status"]
        /\ fetch.ret = FetchStationData(fetch.leg["info"] = "ok", fetch.leg["status"] = "ok",
                                        fetch.target["info"], fetch.target["status"])

\* C12 witness: the status request ended first with a decoded list, the information
\* request then failed on a body of which a part was decoded, and the call returned.
C12_Witness ==
    /\ fetch.pc = "returned"
    /\ fetch.order = <<"status", "info">>
    /\ fetch.leg["status"] = "ok" /\ fetch.target["status"] # <<>>
    /\ fetch.leg["info"] = "decode" /\ fetch.target["info"] # <<>>
    /\ fetch.ret.err

\* C13: when the response GetPredictions decoded has no predictions, or a count that
\* differs from the length of its predictions list, GetPredictions has returned an
\* error and a nil response, and the invocation that received it has returned an error
\* without calling InsertPredictions.
C13_MalformedResponseRejected ==
    (/\ run.pc # "idle"
     /\ run.outcome = "ok"
     /\ (Len(run.body.predictions) = 0 \/ run.body.count # Len(run.body.predictions))) =>
        /\ run.got.err # "nil"
        /\ run.got.resp = <<>>
        /\ run.pc = "done"
        /\ run.calls = <<"GetPredictions">>
        /\ run.ret = "get predictions"

\* C13 witness: a response with one prediction and a larger count has been rejected.
C13_Witness ==
    /\ run.pc = "done"
    /\ run.outcome = "ok"
    /\ Len(run.body.predictions) = 1 /\ run.body.count = MaxPredLen + 1
    /\ run.body.predictions[1].station_id # "" /\ run.body.predictions[1].prediction_time # ""
    /\ run.got.err # "nil"

WellFormed(p) ==
    /\ Len(p.predictions) > 0
    /\ p.count = Len(p.predictions)
    /\ \A i \in 1..Len(p.predictions) :
          p.predictions[i].station_id # "" /\ p.predictions[i].prediction_time # ""

\* C14: Validate returns nil for a decoded response exactly when its predictions list
\* is not empty, its count equals the length of the list and every element has a
\* station ID and a prediction time that are not empty; it leaves the response as it was.
C14_ValidateIff ==
    (run.pc # "idle" /\ run.outcome = "ok") =>
        /\ (Validate(run.body).err = "nil") <=> WellFormed(run.body)
        /\ Validate(run.body).p = run.body
        /\ (run.got.err = "nil") <=> WellFormed(run.body)
        /\ run.got.err = "nil" => run.got.resp = <<run.body>>

\* C14 witness: a full response whose times are not RFC 3339 has been accepted.
C14_Witness ==
    /\ run.pc = "insert"
    /\ Len(run.body.predictions) = MaxPredLen
    /\ \A i \in 1..Len(run.body.predictions) : run.body.predictions[i].prediction_time = "tomorrow"
    /\ run.got.err = "nil"

\* C15: when GetPredictions has returned a validated batch, the conversion has not
\* failed, and the list the invocation passes to InsertPredictions has the length of
\* the batch and its station IDs in its order; the record of an element whose
\* prediction_time does not parse has the current time, every other record the time
\* parsed from its element.
C15_ConversionKeepsEveryRecord ==
    (run.pc # "idle" /\ run.got.err = "nil") =>
        /\ run.ret # "convert predictions"
        /\ run.pc = "done" => run.calls = <<"GetPredictions", "InsertPredictions">>
        /\ Len(run.predictions) = Len(run.got.resp[1].predictions)
        /\ \A i \in 1..Len(run.predictions) :
              LET raw == run.got.resp[1].predictions[i]
                  rec == run.predictions[i]
              IN  /\ rec.StationID = raw.station_id
                  /\ IF raw.prediction_time = "2024-01-01T06:00:00Z"
                     THEN rec.PredictionTime = [from |-> "parsed", at |-> raw.prediction_time]
                     ELSE rec.PredictionTime.from = "now" /\ rec.PredictionTime.at \in NowValues

\* C15 witness: a batch whose first time does not parse and whose last does is
\* converted and about to be inserted.
C15_Witness ==
    /\ run.pc = "insert"
    /\ Len(run.predictions) = MaxPredLen
    /\ run.predictions[1].PredictionTime.from = "now"
    /\ run.predictions[MaxPredLen].PredictionTime.from = "parsed"

\* C16: an invocation calls GetPredictions once and then InsertPredictions at most
\* once; that call gets all the converted records, which are the rows it adds when it
\* succeeds; when it fails the invocation returns an error, and a returned invocation
\* makes no further call.
C16_OneInsertNoRetry ==
    /\ [](/\ run.calls \in {<<>>, <<"GetPredictions">>, <<"GetPredictions", "InsertPredictions">>}
          /\ run.pc # "idle" => run.calls # <<>>
          /\ run.insertErr = "err" => (run.pc = "done" /\ run.ret = "store predictions")
          /\ run.insertErr = "nil" => (run.pc = "done" /\ run.ret = "nil"))
    /\ [][/\ run.pc = "done" => (run' = run /\ dbPred' = dbPred)
          /\ (run.pc = "insert" /\ run'.insertErr = "nil") =>
                /\ Len(dbPred') = Len(dbPred) + Len(run.predictions)
                /\ \A i \in 1..Len(run.predictions) :
                      dbPred'[Len(dbPred) + i].StationID = run.predictions[i].StationID
          /\ (run.pc = "insert" /\ run'.insertErr = "err") => dbPred' = dbPred]_vars

\* C16 witness: the insert of a full batch has failed and the invocation has returned.
C16_Witness ==
    /\ run.pc = "done"
    /\ run.insertErr = "err"
    /\ Len(run.predictions) = MaxPredLen
    /\ run.calls = <<"GetPredictions", "InsertPredictions">>

IsPrefix(a, b) == Len(a) <= Len(b) /\ SubSeq(b, 1, Len(a)) = a

WriteCalls == {"UpsertStations", "InsertAvailabilities", "InsertPredictions"}

\* C17: each of UpsertStations, InsertAvailabilities and InsertPredictions is all or
\* nothing.  In every state the store reaches, a call with any batch in which the
\* write of a row, or the commit, fails (an availability row of a station that is not
\* stored fails) returns an error and gives back the table as it was; and a step in
\* which such a call has returned an error leaves the three tables as they were.
C17_AllOrNothing ==
    /\ [](/\ \A b \in SeqsUpTo(Station, MaxBatchLen) : \A f \in 1..(Len(b) + 1) :
                Len(b) > 0 => (/\ UpsertStations(dbStations, b, f).err
                               /\ UpsertStations(dbStations, b, f).table = dbStations)
          /\ \A b \in SeqsUpTo(StationAvailability, MaxBatchLen) : \A f \in 0..(Len(b) + 1) :
                (Len(b) > 0 /\ (f # 0 \/ ~ForeignKeyOk(dbStations, b))) =>
                    (/\ InsertAvailabilities(dbStations, dbAvail, b, f).err
                     /\ InsertAvailabilities(dbStations, dbAvail, b, f).rows = dbAvail)
          /\ \A b \in SeqsUpTo(Prediction, MaxBatchLen) : \A f \in 1..(Len(b) + 1) :
                Len(b) > 0 => (/\ InsertPredictions(dbPred, b, f, dbClock).err
                               /\ InsertPredictions(dbPred, b, f, dbClock).rows = dbPred))
    /\ [][(lastCall'.op \in WriteCalls /\ lastCall'.err) =>
            (dbStations' = dbStations /\ dbAvail' = dbAvail /\ dbPred' = dbPred)]_vars

\* C17 witness: an InsertAvailabilities call has returned an error over tables that
\* hold stations, availability rows and prediction rows.
C17_Witness ==
    /\ lastCall.op = "InsertAvailabilities" /\ lastCall.err
    /\ dbStations # <<>> /\ dbAvail # <<>> /\ dbPred # <<>>

\* C18: no step of the store makes the set of stored station IDs smaller, and every
\* availability row and every prediction row that is stored stays stored, at its
\* place and with its content, whatever call succeeds or fails.
C18_NothingDeleted ==
    [][/\ DOMAIN dbStations \subseteq DOMAIN dbStations'
       /\ IsPrefix(dbAvail, dbAvail')
       /\ IsPrefix(dbPred, dbPred')]_vars

\* C18 witness: both stations are stored, the append-only tables are full, and the
\* latest call is a write that failed.
C18_Witness ==
    /\ DOMAIN dbStations = StationIDs
    /\ dbAvail # <<>> /\ dbPred # <<>>
    /\ Len(dbAvail) + Len(dbPred) = MaxRows
    /\ lastCall.op = "InsertPredictions" /\ lastCall.err

\* C19: after an UpsertStations call that returned nil, each station ID of the batch
\* is stored with the name and capacity of its last record in the batch, whatever was
\* stored for it before; upserting the same batch again changes nothing; and no call
\* changes a station that is not in its batch.  (The table has one row per station ID:
\* station_id is its primary key.)
C19_IdempotentLastWriteWins ==
    /\ []((lastCall.op = "UpsertStations" /\ ~lastCall.err) =>
            /\ UpsertStations(dbStations, lastCall.batch, 0).table = dbStations
            /\ \A i \in 1..Len(lastCall.batch) :
                  (\A j \in (i + 1)..Len(lastCall.batch) :
                      lastCall.batch[j].StationID # lastCall.batch[i].StationID) =>
                      /\ lastCall.batch[i].StationID \in DOMAIN dbStations
                      /\ dbStations[lastCall.batch[i].StationID] =
                            [Name |-> lastCall.batch[i].Name,
                             Capacity |-> lastCall.batch[i].Capacity])
    /\ [][/\ (lastCall.op = "UpsertStations" /\ ~lastCall.err) => dbStations' = dbStations
          /\ \A id \in DOMAIN dbStations :
                (\A i \in 1..Len(lastCall'.batch) : lastCall'.batch[i].StationID # id) =>
                    (id \in DOMAIN dbStations' /\ dbStations'[id] = dbStations[id])]_vars

\* C19 witness: a batch that writes one station twice, with two names, has been
\* upserted over a table that held a station.
C19_Witness ==
    /\ lastCall.op = "UpsertStations" /\ ~lastCall.err
    /\ Len(lastCall.batch) = MaxBatchLen
    /\ lastCall.batch[1].StationID = lastCall.batch[MaxBatchLen].StationID
    /\ lastCall.batch[1].Name # lastCall.batch[MaxBatchLen].Name
    /\ DOMAIN dbStations = StationIDs

\* C20: a GetLatestPredictions call that returned nil has returned exactly one record
\* for each station that has a stored prediction and none for any other; the record
\* is a stored row of the station, and no stored row of the station was created
\* later.  No insert changes or removes a prediction stored before.
C20_LatestPerStation ==
    /\ []((lastCall.op = "GetLatestPredictions" /\ ~lastCall.err) =>
            /\ \A sid \in StationIDs :
                  Cardinality({k \in 1..Len(lastCall.result) : lastCall.result[k].StationID = sid})
                     = (IF HasRows(dbPred, sid) THEN 1 ELSE 0)
            /\ \A k \in 1..Len(lastCall.result) :
                  LET rec == lastCall.result[k]
                  IN  /\ rec.id \in 1..Len(dbPred)
                      /\ dbPred[rec.id] = [StationID |-> rec.StationID,
                                           PredictionTime |-> rec.PredictionTime,
                                           CreatedAt |-> rec.CreatedAt]
                      /\ \A j \in 1..Len(dbPred) :
                            dbPred[j].StationID = rec.StationID =>
                                dbPred[j].CreatedAt <= rec.CreatedAt)
    /\ [][lastCall'.op = "InsertPredictions" => IsPrefix(dbPred, dbPred')]_vars

\* C20 witness: a station has an earlier and a later prediction, both stored, and the
\* read has returned the later one.
C20_Witness ==
    /\ lastCall.op = "GetLatestPredictions" /\ ~lastCall.err
    /\ Len(dbPred) >= 2
    /\ dbPred[1].StationID = dbPred[2].StationID
    /\ dbPred[1].CreatedAt < dbPred[2].CreatedAt
    /\ Len(lastCall.result) = 1 /\ lastCall.result[1].id = 2

\* C21: every station row that a collection cycle has stored satisfies the
\* StationRecord invariant, whatever the feed held: Station.Validate returns nil for
\* it, that is, its ID and its name are not empty and its capacity is not negative.
C21_StoredStationsValid ==
    \A id \in DOMAIN dbStations :
        StationValidate([StationID |-> id,
                         Name |-> dbStations[id].Name,
                         Capacity |-> dbStations[id].Capacity]) = "nil"

\* The number of latest predictions: one per station that has a prediction stored.
LatestCount == Cardinality({dbPred[i].StationID : i \in 1..Len(dbPred)})

\* A request has just been answered by the named handler.
Answered(handler) == reply' # reply /\ reply'.handler = handler

\* C22: the health endpoint answers 503 and "unhealthy" when the prediction query
\* fails or the store holds no prediction, and 200 and "healthy" with a count equal to
\* the number of latest predictions when the query succeeds over at least one stored
\* prediction.
C22_HealthReportsPredictions ==
    [][Answered("HealthCheck") =>
          LET failed == reply'.queries[1].err
          IN  /\ (failed \/ Len(dbPred) = 0) =>
                    reply'.status = 503 /\ reply'.health = "unhealthy"
              /\ (~failed /\ Len(dbPred) >= 1) =>
                    /\ reply'.status = 200
                    /\ reply'.health = "healthy"
                    /\ reply'.count = LatestCount]_vars

\* A health request was answered 200 over two stored predictions of one station,
\* counted as one.
C22_Witness ==
    /\ reply.handler = "HealthCheck"
    /\ reply.status = 200
    /\ reply.count = 1
    /\ Len(dbPred) = 2

\* C23: GET /api/stations/json answers 500 whenever a query it issued failed, 503 when
\* mode=predicted is asked and no prediction is stored, and 200 otherwise; in mode
\* "current" it does not query the predictions and returns the stations.
C23_StationsJSONStatus ==
    [][Answered("GetStationsJSON") =>
          LET failed == \E i \in 1..Len(reply'.queries) : reply'.queries[i].err
          IN  /\ reply'.status = IF failed THEN 500
                                 ELSE IF reply'.mode = "predicted" /\ Len(dbPred) = 0 THEN 503
                                 ELSE 200
              /\ reply'.mode = "current" =>
                    /\ \A i \in 1..Len(reply'.queries) :
                          reply'.queries[i].op # "GetLatestPredictions"
                    /\ ~failed =>
                          reply'.stations = GetStationsWithAvailability(dbStations, dbAvail)]_vars

\* C24: a request to the refresh endpoint and a request to the inference trigger
\* endpoint are each answered by the handler of the use case, after exactly one run of
\* it, with 200 if the run returned no error and 500 if it returned one.
C24_BothUseCasesTriggered ==
    /\ reply.request = "POST /api/refresh" =>
          /\ reply.handler = "RefreshStationData"
          /\ reply.runs = 1
          /\ reply.status = RefreshStationData(inv["http"].ret).status
    /\ reply.request \in {"POST /inference", "POST /api/inference"} =>
          /\ reply.handler = "TriggerInference"
          /\ reply.runs = 1
          /\ reply.status = TriggerInference(run.ret).status

\* C25: Config.Validate returns an error exactly when the database URL is empty, the
\* data-collection interval is not positive, or the server port is empty.
C25_ValidateIff ==
    boot.err # "none" =>
        (boot.err # "nil" <=> \/ config.URL = ""
                              \/ config.DataCollectionIntervalMin <= 0
                              \/ config.Port = "")

\* A configuration loaded from the environment was rejected for its interval alone.
C25_Witness ==
    /\ boot.source = "env"
    /\ boot.err # "none" /\ boot.err # "nil"
    /\ config.URL # "" /\ config.Port # ""
    /\ config.DataCollectionIntervalMin = 0

\* C29: with a configuration that Validate accepted, neither the start of the
\* prediction service nor the collection loop panics on the period of its ticker.
C29_AcceptedConfigStartsLoops ==
    boot.err = "nil" => boot.main # "panic" /\ boot.coll # "panic"

\* C26: Start leaves the server listening with the prediction loop in its initial
\* phase and the collection loop waiting for its first boundary; whatever the loops
\* are doing, a request can be taken while the server listens and a request in flight
\* can be answered.
C26_ServesWhileSchedulerWorks ==
    /\ [][mainPc = "init" /\ mainPc' = "serving" =>
             InInitialPhase' /\ collPc' = "waitFirst"]_vars
    /\ [](mainPc = "serving" /\ httpPc = "idle" => ENABLED HTTPRefreshBegin)
    /\ [](Alive /\ httpPc = "running" => ENABLED HTTPRefreshReturns)

\* A request is being served while the first attempt of the prediction loop is in
\* flight and the collection loop waits for its first boundary.
C26_Witness ==
    /\ mainPc = "serving"
    /\ httpPc = "running"
    /\ predPc = "attempt"
    /\ collPc = "waitFirst"

\* The callers of RefreshStationData whose call is in flight.
RefreshInFlight ==
    {g \in {"startup", "loop", "http"} :
        \/ g = "startup" /\ startupPc = "running"
        \/ g = "loop" /\ collPc \in {"runFirst", "runTick"}
        \/ g = "http" /\ httpPc = "running"}

\* C27: at most one RefreshStationData execution is in flight at any time, over the
\* startup refresh, the collection loop and POST /api/refresh.
C27_OneRefreshInFlight == Cardinality(RefreshInFlight) <= 1

\* C28: a RunInferenceWithResults invocation that returns success leaves at least one
\* prediction stored; no later step, of a failed run or of a collection cycle, empties
\* the predictions table; and a health request over a non-empty table is answered 200
\* unless its query fails.
C28_HealthStaysHealthy ==
    [][/\ (run.pc # "done" /\ run'.pc = "done" /\ run'.ret = "nil") => Len(dbPred') > 0
       /\ Len(dbPred) > 0 => Len(dbPred') > 0
       /\ (Answered("HealthCheck") /\ Len(dbPred) > 0 /\ ~reply'.queries[1].err) =>
              reply'.status = 200 /\ reply'.health = "healthy"]_vars

\* Health is answered 200 over the one prediction that an earlier run stored, after
\* the latest run has failed.
C28_Witness ==
    /\ reply.handler = "HealthCheck"
    /\ reply.status = 200
    /\ Len(dbPred) = 1
    /\ run.pc = "done" /\ run.ret # "nil"

\* Every row of rows has the ID of a stored station.
ReferencesStored(rows) ==
    \A i \in 1..Len(rows) : rows[i].StationID \in DOMAIN dbStations

\* C30: in every state each stored availability row has the ID of a stored station, and
\* a collection cycle that reaches its insert with a status whose station is neither in
\* its own station feed nor stored returns an error and stores no availability row.
C30_AvailabilityReferencesStation ==
    /\ []ReferencesStored(dbAvail)
    /\ [][\A c \in Callers :
             (/\ inv[c].pc = "insert"
              /\ inv'[c].pc = "done"
              /\ ~ReferencesStored(inv[c].availabilities)) =>
                 dbAvail' = dbAvail /\ inv'[c].ret # "nil"]_vars

\* The loop's cycle is about to insert a status of a station that is not stored, while
\* a row of the other caller's cycle is stored.
C30_Witness ==
    /\ inv["loop"].pc = "insert"
    /\ ~ReferencesStored(inv["loop"].availabilities)
    /\ Len(dbAvail) > 0

============================================================================
